---- MODULE Spec2Model ----
(***************************************************************************)
(* The deployment orchestrator of orca: the Flask handlers deploy, list    *)
(* and delete (api/routes/deployment.py), the cluster reconciler and the   *)
(* exposure manager (api/services/kubernetes.py), the image builder        *)
(* (api/services/build.py) and run_command (api/utils/shell.py).           *)
(*                                                                         *)
(* Every handler runs in a request thread; a thread advances one external  *)
(* call (git, docker, kind, kubectl, pkill, ps, socket) at a time, and     *)
(* the threads interleave between those calls.  The cluster, the process   *)
(* table of the host and the working directory are the shared state.       *)
(***************************************************************************)
EXTENDS Integers, Sequences, FiniteSets, TLC

\* ------------------------------------------------------------- bounds
MaxId == 1        \* deployment identities uuid4()[:8] can draw: 1..MaxId
MaxPort == 2      \* local ephemeral ports the OS can hand out: 1..MaxPort
MaxTunnels == 2   \* port-forward processes the host can hold at once
NumThreads == 2   \* request threads of the Flask server

Ids == 1..MaxId
Ports == 1..MaxPort
Threads == 1..NumThreads

\* ------------------------------------------------------------- names
\* A workload name is its sequence of tokens: "app-<id>" is <<"app-", id>>.
\* Every name a deploy creates has the same length; the cluster may also
\* hold workloads created outside the service: one whose name extends
\* app-1 by a character, and one without the app- prefix.
AppName(id) == <<"app-", id>>
Extended == <<"app-", 1, 1>>
Foreign == <<"web">>
ExternalNames == {Extended, Foreign}
Names == {AppName(i) : i \in Ids \cup Threads} \cup ExternalNames

\* the scratch directory of an analyze call: f"analyze-{deploy_id}"
AnalyzeName(id) == <<"analyze-", id>>

\* str.startswith("app-")
StartsWithApp(n) == n[1] = "app-"

\* a is a prefix of b: the command line "... port-forward service/<b> <p>:80"
\* contains the text "port-forward service/<a>" exactly when a is a prefix of b
IsPrefix(a, b) ==
    /\ Len(a) <= Len(b)
    /\ \A i \in 1..Len(a) : a[i] = b[i]

\* kubectl prints the deployments ordered by name
Rank(n) ==
    IF n[1] = "app-" THEN 10 * n[2] + (IF Len(n) > 2 THEN n[3] ELSE 0)
    ELSE 10 * (MaxId + NumThreads + 1)

RECURSIVE SortedSeq(_)
SortedSeq(S) ==
    IF S = {} THEN <<>>
    ELSE LET m == CHOOSE x \in S : \A y \in S : Rank(x) <= Rank(y)
         IN <<m>> \o SortedSeq(S \ {m})

\* ------------------------------------------------------------- values
\* a service_url is a sequence of tokens: the sentinel text, or scheme and port
Sentinel == <<"Could not set up port forwarding">>
Url(p) == <<"http://localhost:", p>>
NoResp == [status |-> "none"]
NotRun == "not run"

\* ------------------------------------------------------ source trees
MaxStmts == 2     \* port statements in the text of one entry-point file

\* A text is its sequence of characters.
Digits == {"0", "1", "2", "3", "4", "5", "6", "7", "8", "9"}

DigitVal(c) ==
    CASE c = "0" -> 0 [] c = "1" -> 1 [] c = "2" -> 2 [] c = "3" -> 3
      [] c = "4" -> 4 [] c = "5" -> 5 [] c = "6" -> 6 [] c = "7" -> 7
      [] c = "8" -> 8 [] c = "9" -> 9

RECURSIVE Magnitude(_)
Magnitude(t) ==
    IF t = <<>> THEN 0
    ELSE 10 * Magnitude(SubSeq(t, 1, Len(t) - 1)) + DigitVal(t[Len(t)])

\* int(text): an optional sign, then one digit or more; anything else is
\* a ValueError
ParseInt(t) ==
    LET signed == t # <<>> /\ Head(t) \in {"-", "+"}
        body == IF signed THEN Tail(t) ELSE t
    IN IF body # <<>> /\ \A i \in 1..Len(body) : body[i] \in Digits
       THEN [kind |-> "int",
             n |-> IF signed /\ Head(t) = "-" THEN 0 - Magnitude(body)
                   ELSE Magnitude(body)]
       ELSE [kind |-> "ValueError"]

\* the value JSON gives a binding: a string, null, or a number
Str(t) == [kind |-> "str", text |-> t]
Null == [kind |-> "null"]
Num(n) == [kind |-> "num", n |-> n]
NoBinding == [kind |-> "absent"]

\* int(value): of a string its parse, of a number the number, of None a
\* TypeError
IntOf(v) ==
    CASE v.kind = "str" -> ParseInt(v.text)
      [] v.kind = "num" -> [kind |-> "int", n |-> v.n]
      [] OTHER -> [kind |-> "TypeError"]

\* env_vars: the PORT binding, and whether other bindings are present
EnvVars(v, o) == [PORT |-> v, others |-> o]

\* "PORT" in env_vars
HasPort(ev) == ev.PORT.kind # "absent"

\* the truth value of the dict: it is not empty
NonEmpty(ev) == HasPort(ev) \/ ev.others

Markers == {"package.json", "requirements.txt", "go.mod"}
NodeFiles == <<"index.js", "server.js", "app.js">>
PythonFiles == <<"app.py", "main.py", "run.py">>
EntryFiles == {"index.js", "server.js", "app.js", "app.py", "main.py", "run.py"}
Archetypes == {"node", "python", "go", "static"}
TreeFiles == Markers \cup EntryFiles \cup {"Dockerfile", ".env"}

\* A source tree: the names of the files it holds at its top, and the
\* text of its entry-point files as the sequence of its port statements,
\* each one a form and the digits it carries:
\*   "listen"   app.listen(N)                "port"    port = N
\*   "PORT"     PORT = N                     "envor"   process.env.PORT || N
\*   "run"      app.run(host=h, port=N)      "environ" int(os.environ.get('PORT', 'N'))
Stmt(f, d) == [form |-> f, digits |-> d]

Tree(fs, src) == [files |-> fs, source |-> src]

NoSource == [f \in EntryFiles |-> <<>>]

\* the pattern lists of detect_project_port: rule r of the archetype's
\* list finds a match in a statement of form f
RuleMatches(type, r, f) ==
    IF type = "node"
    THEN \/ r = 1 /\ f = "listen"
         \/ r = 2 /\ f \in {"port", "run"}
         \/ r = 3 /\ f = "PORT"
         \/ r = 4 /\ f = "envor"
    ELSE \/ r = 1 /\ f = "run"
         \/ r = 2 /\ f \in {"port", "run"}
         \/ r = 3 /\ f = "PORT"
         \/ r = 4 /\ f = "environ"

NoMatch == [kind |-> "none"]

\* re.search(pattern, content): the leftmost match, from statement i on
RECURSIVE Search(_, _, _, _)
Search(type, r, content, i) ==
    IF i > Len(content) THEN NoMatch
    ELSE IF RuleMatches(type, r, content[i].form)
         THEN [kind |-> "match", group |-> content[i].digits]
         ELSE Search(type, r, content, i + 1)

\* for pattern in [...]: the patterns from rule r on, over one file
RECURSIVE ScanRules(_, _, _)
ScanRules(type, content, r) ==
    IF r > 4 THEN NoMatch
    ELSE LET m == Search(type, r, content, 1) IN
         IF m.kind = "match" /\ ParseInt(m.group).kind = "int"
         THEN ParseInt(m.group)
         ELSE ScanRules(type, content, r + 1)

\* for filename in [...]: the entry-point files from the k-th on
RECURSIVE ScanFiles(_, _, _, _)
ScanFiles(type, tree, files, k) ==
    IF k > Len(files) THEN NoMatch
    ELSE LET hit == IF files[k] \in tree.files
                    THEN ScanRules(type, tree.source[files[k]], 1)
                    ELSE NoMatch
         IN IF hit.kind = "int" THEN hit
            ELSE ScanFiles(type, tree, files, k + 1)

\* default_ports.get(project_type, 80)
default_ports(type) ==
    CASE type = "node" -> 3000
      [] type = "python" -> 5000
      [] type = "go" -> 8080
      [] OTHER -> 80

\* Mutant of EnvPort: the PORT binding is never looked at.
EnvPortIgnored(ev) == [kind |-> "ValueError"]

\* if "PORT" in env_vars: try: return int(env_vars["PORT"])
EnvPort(ev) == IF HasPort(ev) THEN IntOf(ev.PORT) ELSE [kind |-> "ValueError"]

\* Mutant of EntryPoints: the entry-point files in the opposite order.
EntryPointsReversed(type) ==
    CASE type = "node" -> <<"app.js", "server.js", "index.js">>
      [] type = "python" -> <<"run.py", "main.py", "app.py">>
      [] OTHER -> <<>>

\* the files detect_project_port opens for an archetype, in order
EntryPoints(type) ==
    CASE type = "node" -> NodeFiles
      [] type = "python" -> PythonFiles
      [] OTHER -> <<>>

\* detect_project_port: [kind |-> "int", n |-> port], or the TypeError
\* that int() raises and nothing in the function catches
detect_project_port(tree, type, ev) ==
    LET e == EnvPort(ev)
        s == ScanFiles(type, tree, EntryPoints(type), 1)
    IN IF e.kind \in {"int", "TypeError"} THEN e
       ELSE IF s.kind = "int" THEN s
       ELSE [kind |-> "int", n |-> default_ports(type)]

\* Mutant of detect_project_type: go.mod is tested first.
detect_project_type_GoFirst(tree) ==
    IF "go.mod" \in tree.files THEN "go"
    ELSE IF "package.json" \in tree.files THEN "node"
    ELSE IF "requirements.txt" \in tree.files THEN "python"
    ELSE "static"

\* detect_project_type: the archetype; the recipe returned with it is the
\* canonical recipe of that archetype
detect_project_type(tree) ==
    IF "package.json" \in tree.files THEN "node"
    ELSE IF "requirements.txt" \in tree.files THEN "python"
    ELSE IF "go.mod" \in tree.files THEN "go"
    ELSE "static"


VARIABLES
    workload,   \* cluster: name -> "absent" | "rolling" | "ready" | "failed"
    services,   \* cluster: names that have a Service declaration
    procs,      \* live port-forward processes, in the order ps lists them
    dirs,       \* directories that exist under WORKDIR
    used,       \* history: names some deploy has applied a workload under
    pc,         \* thread -> position in its handler ("idle": no request)
    op,         \* thread -> "none" | "deploy" | "list" | "delete"
    app,        \* thread -> app_name of the call (list: the current item)
    port,       \* thread -> port chosen by get_service_url (0: none yet)
    snap,       \* thread -> list: deployments_list, what kubectl printed
    details,    \* thread -> list: the entries collected so far
    trace,      \* thread -> deploy: the pipeline steps invoked, in order
    killed,     \* thread -> pkill of this get_service_url: "not run" |
                \*   "own" (it ended a tunnel of app) | "none"
    repo,       \* the source tree at the repo_url the clients deploy
    env_vars,   \* the env_vars the clients send with it
    build,      \* thread -> deploy: project_dir after prepare_docker_build,
                \*   project_type, and the ports of the two manifests
    resp        \* the response that leaves the server in this step

vars == <<workload, services, procs, dirs, used, pc, op, app, port, snap,
          details, trace, killed, repo, env_vars, build, resp>>

cluster == <<workload, services>>
locals == <<op, app, port, snap, details, trace, killed, build>>
request == <<repo, env_vars>>

Deployments == {n \in Names : workload[n] # "absent"}

\* the processes whose command line contains "port-forward service/<n>":
\* what grep 'port-forward service/<n>' keeps and what pkill -f matches
Matching(n) == {i \in 1..Len(procs) : IsPrefix(n, procs[i].name)}

\* the live tunnels whose target is exactly the workload n
TunnelsOf(n) == {i \in 1..Len(procs) : procs[i].name = n}

RemoveAt(s, I) ==
    LET F[k \in 0..Len(s)] ==
            IF k = 0 THEN <<>>
            ELSE IF k \in I THEN F[k - 1] ELSE Append(F[k - 1], s[k])
    IN F[Len(s)]

\* re.search(r'(\d+):80', pf_process).group(1): the port of the first line
FirstPort(n) == procs[CHOOSE i \in Matching(n) : \A j \in Matching(n) : i <= j].port

\* ports bound by a live tunnel are not handed out by bind(('', 0))
FreePorts == {q \in Ports : \A i \in 1..Len(procs) : procs[i].port # q}

TypeOK ==
    /\ workload \in [Names -> {"absent", "rolling", "ready", "failed"}]
    /\ services \subseteq Names
    /\ Len(procs) <= MaxTunnels
    /\ \A i \in 1..Len(procs) : procs[i].name \in Names /\ procs[i].port \in Ports
    /\ dirs \subseteq Names \cup {AnalyzeName(i) : i \in Ids}
    /\ used \subseteq Names
    /\ op \in [Threads -> {"none", "deploy", "list", "delete", "analyze"}]
    /\ port \in [Threads -> {0} \cup Ports]
    /\ killed \in [Threads -> {NotRun, "own", "none"}]
    /\ repo.files \subseteq TreeFiles
    /\ \A p \in Threads :
          build[p].project_type \in Archetypes \cup {"none"}

\* project_dir before prepare_docker_build has run, no manifest written
NoBuild == [dockerfile |-> "none", envfile |-> "none", project_type |-> "none",
            synthesized |-> FALSE, containerPort |-> 0, targetPort |-> 0,
            paths |-> {}]

\* a Flask project that brings its .env file and names no port
PlainRepo == Tree({"requirements.txt", ".env"}, NoSource)

\* ------------------------------------------------------------- Init
\* The service has just started against a cluster that holds workloads
\* created outside it, rolled out: the foreign one, with or without the
\* one whose name extends app-1.  No tunnel runs yet.
Booted(Es) ==
    /\ \E E \in Es :
        /\ workload = [n \in Names |-> IF n \in E THEN "ready" ELSE "absent"]
        /\ services = E
    /\ procs = <<>>
    /\ dirs = {}
    /\ used = {}
    /\ pc = [p \in Threads |-> "idle"]
    /\ op = [p \in Threads |-> "none"]
    /\ app = [p \in Threads |-> Foreign]
    /\ port = [p \in Threads |-> 0]
    /\ snap = [p \in Threads |-> <<>>]
    /\ details = [p \in Threads |-> <<>>]
    /\ trace = [p \in Threads |-> <<>>]
    /\ killed = [p \in Threads |-> NotRun]
    /\ build = [p \in Threads |-> NoBuild]
    /\ resp = NoResp

\* every client deploys the plain repository and sends no env_vars
Init ==
    /\ repo = PlainRepo
    /\ env_vars = EnvVars(NoBinding, FALSE)
    /\ Booted({{Foreign}, ExternalNames})

\* ------------------------------------------------------------- helpers
\* go on with the next statement of the handler
Goto(p, l) ==
    /\ pc' = [pc EXCEPT ![p] = l]
    /\ resp' = NoResp
    /\ UNCHANGED request

\* the pipeline step s was invoked and returned (ok) or raised (~ok)
Step(p, s, ok) == Append(trace[p], [step |-> s, ok |-> ok])

\* a new request enters thread p
Enter(p, o, n, l) ==
    /\ pc[p] = "idle"
    /\ pc' = [pc EXCEPT ![p] = l]
    /\ op' = [op EXCEPT ![p] = o]
    /\ app' = [app EXCEPT ![p] = n]
    /\ resp' = NoResp
    /\ UNCHANGED <<port, snap, details, trace, killed, build, request>>

\* return jsonify(...), code: the response r leaves, the thread is free.
\* The response carries, as history, the call that produced it.
Finish(p, r, t) ==
    /\ resp' = r @@ [thread |-> p, op |-> op[p], app |-> app[p], port |-> port[p],
                     trace |-> t, killed |-> killed[p], build |-> build[p]]
    /\ pc' = [pc EXCEPT ![p] = "idle"]
    /\ op' = [op EXCEPT ![p] = "none"]
    /\ app' = [app EXCEPT ![p] = Foreign]
    /\ port' = [port EXCEPT ![p] = 0]
    /\ snap' = [snap EXCEPT ![p] = <<>>]
    /\ details' = [details EXCEPT ![p] = <<>>]
    /\ trace' = [trace EXCEPT ![p] = <<>>]
    /\ killed' = [killed EXCEPT ![p] = NotRun]
    /\ build' = [build EXCEPT ![p] = NoBuild]
    /\ UNCHANGED request

\* except Exception as e: return {"status": "error", "error": str(e)}, 500
\* (the same clause closes deploy_app, delete_deployment, list_deployments)
\* keys: the keys of the JSON object that is sent
ErrorResp == [status |-> "error", code |-> 500, keys |-> {"status", "error"}]

HandlerFailed(p, t) == Finish(p, ErrorResp, t)

\* the same, where the text of the error, str(e), is known
Diagnosed(p, t, e) == Finish(p, [error |-> e] @@ ErrorResp, t)

\* Mutant of Checked: run_command without check=True, a failing command
\* goes unnoticed and the handler goes on.
CheckedIgnoring(p, s, ok, l) ==
    /\ Goto(p, l)
    /\ trace' = [trace EXCEPT ![p] = Step(p, s, ok)]
    /\ UNCHANGED <<op, app, port, snap, details, killed, build>>

\* run_command(..., check=True) inside the handler's try: the step s ran;
\* when it exits non-zero it raises and the handler's except clause answers
Checked(p, s, ok, l) ==
    IF ok
    THEN /\ Goto(p, l)
         /\ trace' = [trace EXCEPT ![p] = Step(p, s, TRUE)]
         /\ UNCHANGED <<op, app, port, snap, details, killed, build>>
    ELSE HandlerFailed(p, Step(p, s, FALSE))

\* ------------------------------------------------------------- deploy
\* deploy_app, lines 33-36: no repo_url, answer 400 at once
DeployBadRequest(p) ==
    /\ pc[p] = "idle"
    /\ resp' = [status |-> "missing", code |-> 400, keys |-> {"error"},
                thread |-> p, op |-> "deploy"]
    /\ UNCHANGED <<cluster, procs, dirs, used, pc, locals, request>>

\* deploy_app, lines 38-47: draw the identity, name the app and its directory
DeployStartAs(p, id) ==
    /\ Enter(p, "deploy", AppName(id), "d_clone")
    /\ UNCHANGED <<cluster, procs, dirs, used>>

DeployStart(p) == \E id \in Ids : DeployStartAs(p, id)

\* Repo.clone_from(repo_url, project_dir): git refuses a destination that
\* exists and is not empty, and removes what it created when it fails
DeployClone(p) ==
    /\ pc[p] = "d_clone"
    /\ \E ok \in BOOLEAN :
        LET fine == ok /\ app[p] \notin dirs IN
        /\ dirs' = IF fine THEN dirs \cup {app[p]} ELSE dirs
        /\ Checked(p, "clone", fine, "d_prepare")
    /\ UNCHANGED <<cluster, procs, used>>

\* Mutant of prepare_docker_build: both files are written without the
\* os.path.exists tests.
prepare_docker_build_Overwriting(tree, ev) ==
    [NoBuild EXCEPT
        !.project_type = detect_project_type(tree),
        !.dockerfile = detect_project_type(tree),
        !.envfile = "bindings"]

\* prepare_docker_build on the clone of a tree: without a Dockerfile the
\* type is detected and its canonical recipe written, with one the type
\* stays "static"; .env is written when it is missing and env_vars is
\* not empty.  The record tells what each file holds afterwards: "own"
\* (what the repository brought), the archetype whose canonical recipe
\* was written, "bindings" (the lines KEY=value), or "none" (no file).
prepare_docker_build(tree, ev) ==
    LET own == "Dockerfile" \in tree.files
        type == IF own THEN "static" ELSE detect_project_type(tree)
    IN [NoBuild EXCEPT
            !.project_type = type,
            !.dockerfile = IF own THEN "own" ELSE type,
            !.envfile = IF ".env" \in tree.files THEN "own"
                        ELSE IF NonEmpty(ev) THEN "bindings" ELSE "none"]

\* os.path.join(WORKDIR, app_name), and a file in it
project_dir(n) == <<"WORKDIR/">> \o n
InProject(n, f) == project_dir(n) \o <<"/", f>>

\* the paths created up to the end of prepare_docker_build: the clone,
\* and the files the preparation wrote
Prepared(n, b) ==
    {project_dir(n)}
        \cup (IF b.dockerfile \in Archetypes THEN {InProject(n, "Dockerfile")} ELSE {})
        \cup (IF b.envfile = "bindings" THEN {InProject(n, ".env")} ELSE {})

\* prepare_docker_build: the recipe, then the env file
DeployPrepare(p) ==
    /\ pc[p] = "d_prepare"
    /\ trace' = [trace EXCEPT ![p] = @ \o <<[step |-> "recipe", ok |-> TRUE],
                                            [step |-> "envfile", ok |-> TRUE]>>]
    /\ build' = [build EXCEPT ![p] =
                    LET b == prepare_docker_build(repo, env_vars)
                    IN [b EXCEPT !.paths = Prepared(app[p], b)]]
    /\ Goto(p, "d_build")
    /\ UNCHANGED <<cluster, procs, dirs, used, op, app, port, snap, details, killed>>

\* the canonical recipes of node, python and go hold "COPY .env .env";
\* docker build fails at a COPY whose source is not in the build context
CopiesEnvFile(dockerfile) == dockerfile \in {"node", "python", "go"}

ContextComplete(b) == CopiesEnvFile(b.dockerfile) => b.envfile # "none"

\* build_and_load_image: docker build
DeployBuild(p) ==
    /\ pc[p] = "d_build"
    /\ IF ContextComplete(build[p])
       THEN \E ok \in BOOLEAN : Checked(p, "build", ok, "d_load")
       ELSE Diagnosed(p, Step(p, "build", FALSE), "COPY failed: .env not found")
    /\ UNCHANGED <<cluster, procs, dirs, used>>

\* build_and_load_image: kind load docker-image
DeployLoad(p) ==
    /\ pc[p] = "d_load"
    /\ \E ok \in BOOLEAN : Checked(p, "load", ok, "d_synth")
    /\ UNCHANGED <<cluster, procs, dirs, used>>

\* Mutant of deploy_file: the manifest has one name for every workload.
SharedDeployFile(n) == <<"WORKDIR/", "deployment.yaml">>

\* os.path.join(workdir, f"{app_name}-deployment.yaml")
deploy_file(n) == <<"WORKDIR/">> \o n \o <<"-deployment.yaml">>

\* os.path.join(workdir, f"{app_name}-service.yaml")
service_file(n) == <<"WORKDIR/">> \o n \o <<"-service.yaml">>

\* deploy_to_kubernetes, lines 19-64: the port is resolved once and put
\* into both manifests; a TypeError of int() ends the handler
DeploySynthesize(p) ==
    /\ pc[p] = "d_synth"
    /\ LET r == detect_project_port(repo, build[p].project_type, env_vars) IN
       IF r.kind = "int"
       THEN /\ build' = [build EXCEPT ![p].synthesized = TRUE,
                                      ![p].containerPort = r.n,
                                      ![p].targetPort = r.n,
                                      ![p].paths = @ \cup {deploy_file(app[p]),
                                                           service_file(app[p])}]
            /\ Goto(p, "d_apply_w")
            /\ UNCHANGED <<op, app, port, snap, details, trace, killed>>
       ELSE Diagnosed(p, trace[p], r.kind)
    /\ UNCHANGED <<cluster, procs, dirs, used>>

\* deploy_to_kubernetes: kubectl apply -f <app>-deployment.yaml
DeployApplyWorkload(p) ==
    /\ pc[p] = "d_apply_w"
    /\ \E ok \in BOOLEAN :
        /\ workload' = IF ok THEN [workload EXCEPT ![app[p]] = "rolling"] ELSE workload
        /\ used' = IF ok THEN used \cup {app[p]} ELSE used
        /\ Checked(p, "apply_workload", ok, "d_apply_s")
    /\ UNCHANGED <<services, procs, dirs>>

\* Mutant of AfterDeployError: the except clause deletes the workload.
RolledBack(w, n) == [w EXCEPT ![n] = "absent"]

\* deploy_app, except Exception: the error is logged and returned; the
\* workloads w of the cluster are left as the failed step found them
AfterDeployError(w, n) == w

\* deploy_to_kubernetes: kubectl apply -f <app>-service.yaml
DeployApplyService(p) ==
    /\ pc[p] = "d_apply_s"
    /\ \E ok \in BOOLEAN :
        /\ services' = IF ok THEN services \cup {app[p]} ELSE services
        /\ workload' = IF ok THEN workload ELSE AfterDeployError(workload, app[p])
        /\ Checked(p, "apply_exposure", ok, "d_rollout")
    /\ UNCHANGED <<procs, dirs, used>>

\* deploy_to_kubernetes: kubectl rollout status deployment/<app> returns 0
\* once the rollout is complete, and non-zero when the rollout failed, the
\* deployment is gone or the cluster cannot be reached
DeployRollout(p) ==
    /\ pc[p] = "d_rollout"
    /\ \E ok \in BOOLEAN :
        /\ ok => workload[app[p]] = "ready"
        /\ workload' = IF ok THEN workload ELSE AfterDeployError(workload, app[p])
        /\ Checked(p, "rollout", ok, "x_socket")
    /\ UNCHANGED <<services, procs, dirs, used>>

\* deploy_app, lines 65-72: the response with what get_service_url returned
DeployReturn(p, u) ==
    Finish(p, [status |-> "success", code |-> 200, deployment_id |-> app[p][2],
               app_name |-> app[p], service_url |-> u],
           Step(p, "expose", u # Sentinel))

\* ------------------------------------------------------------- list
\* Mutant of Listed: the loop without the prefix test.
ListedAll(names) == names

\* if app_name.startswith("app-")
Listed(names) == SelectSeq(names, StartsWithApp)

ListStart(p) ==
    /\ Enter(p, "list", Foreign, "l_get")
    /\ UNCHANGED <<cluster, procs, dirs, used>>

\* kubectl get deployments -o jsonpath=..., split(); the loop then visits
\* the names that pass the prefix test
ListGet(p) ==
    /\ pc[p] = "l_get"
    /\ \E ok \in BOOLEAN :
        IF ok
        THEN LET out == SortedSeq(Deployments)
                 q == Listed(out)
             IN IF q = <<>>
                THEN Finish(p, [status |-> "success", code |-> 200,
                                deployments |-> <<>>, snap |-> out], trace[p])
                ELSE /\ Goto(p, "l_ps")
                     /\ snap' = [snap EXCEPT ![p] = out]
                     /\ app' = [app EXCEPT ![p] = Head(q)]
                     /\ UNCHANGED <<op, port, details, trace, killed, build>>
        ELSE HandlerFailed(p, trace[p])
    /\ UNCHANGED <<cluster, procs, dirs, used>>

\* details.append({...}) and the next turn of the loop, or the response
ListAppend(p, u) ==
    LET d == Append(details[p], [app_name |-> app[p], service_url |-> u])
        q == Listed(snap[p])
    IN IF Len(d) >= Len(q)
       THEN Finish(p, [status |-> "success", code |-> 200,
                       deployments |-> d, snap |-> snap[p]], trace[p])
       ELSE /\ Goto(p, "l_ps")
            /\ details' = [details EXCEPT ![p] = d]
            /\ app' = [app EXCEPT ![p] = q[Len(d) + 1]]
            /\ port' = [port EXCEPT ![p] = 0]
            /\ killed' = [killed EXCEPT ![p] = NotRun]
            /\ UNCHANGED <<op, snap, trace, build>>

\* ps aux | grep 'port-forward service/<app>' | grep -v grep: with a line
\* left, the port of the first line is reused; with none, grep exits 1,
\* run_command raises and the bare except calls get_service_url
ListItem(p) ==
    /\ pc[p] = "l_ps"
    /\ IF Matching(app[p]) # {}
       THEN ListAppend(p, Url(FirstPort(app[p])))
       ELSE /\ Goto(p, "x_socket")
            /\ UNCHANGED locals
    /\ UNCHANGED <<cluster, procs, dirs, used>>

\* ------------------------------------------------------------- expose
\* get_service_url returns u to the handler that called it
ExposeReturn(p, u) ==
    IF op[p] = "deploy" THEN DeployReturn(p, u) ELSE ListAppend(p, u)

\* Mutant of ExposeFailed: get_service_url without its try/except, the
\* error reaches the handler's except clause.
ExposeRaises(p) == HandlerFailed(p, Step(p, "expose", FALSE))

\* except Exception as e: return "Could not set up port forwarding"
ExposeFailed(p) == ExposeReturn(p, Sentinel)

\* socket(); bind(('', 0)); getsockname()[1]; close()
ExposeSocket(p) ==
    /\ pc[p] = "x_socket"
    /\ \/ \E q \in FreePorts :
            /\ port' = [port EXCEPT ![p] = q]
            /\ Goto(p, "x_pkill")
            /\ UNCHANGED <<op, app, snap, details, trace, killed, build>>
       \/ ExposeFailed(p)
    /\ UNCHANGED <<cluster, procs, dirs, used>>

\* Mutant of Pkill: the previous tunnel is left running.
PkillNone(n) == procs

\* pkill -f 'kubectl port-forward service/<app>', then time.sleep(2): every
\* process whose command line matches is gone when the sleep ends
Pkill(n) == RemoveAt(procs, Matching(n))

ExposePkill(p) ==
    /\ pc[p] = "x_pkill"
    /\ procs' = Pkill(app[p])
    /\ killed' = [killed EXCEPT ![p] =
                    IF Len(procs') < Len(procs) /\ TunnelsOf(app[p]) # {}
                    THEN "own" ELSE "none"]
    /\ Goto(p, "x_pods")
    /\ UNCHANGED <<cluster, dirs, used, op, app, port, snap, details, trace, build>>

\* kubectl get pods -l app=<app> -o jsonpath='{.items[0].status.phase}':
\* the phase is logged and nothing else; the command fails without a pod
ExposePods(p) ==
    /\ pc[p] = "x_pods"
    /\ \/ /\ workload[app[p]] # "absent"
          /\ Goto(p, "x_popen")
          /\ UNCHANGED locals
       \/ ExposeFailed(p)
    /\ UNCHANGED <<cluster, procs, dirs, used>>

\* subprocess.Popen("nohup kubectl port-forward service/<app> <port>:80 ... &"):
\* the new process gets the next pid, so ps lists it last
Spawn(n, q) == Append(procs, [name |-> n, port |-> q])

ExposePopen(p) ==
    /\ pc[p] = "x_popen"
    /\ \/ /\ Len(procs) < MaxTunnels
          /\ procs' = Spawn(app[p], port[p])
          /\ Goto(p, "x_verify")
          /\ UNCHANGED locals
       \/ /\ ExposeFailed(p)
          /\ UNCHANGED procs
    /\ UNCHANGED <<cluster, dirs, used>>

\* time.sleep(2); ps aux | grep 'port-forward service/<app>' | grep -v grep
\* through run_command: with no line left grep exits 1 and run_command raises
ExposeVerify(p) ==
    /\ pc[p] = "x_verify"
    /\ IF Matching(app[p]) # {}
       THEN ExposeReturn(p, Url(port[p]))
       ELSE ExposeFailed(p)
    /\ UNCHANGED <<cluster, procs, dirs, used>>

\* ------------------------------------------------------------- delete
\* DELETE /delete/<app_name>, for the names deploy hands out
DeleteStart(p) ==
    /\ \E i \in Ids : Enter(p, "delete", AppName(i), "del_s")
    /\ UNCHANGED <<cluster, procs, dirs, used>>

\* Mutant of KubectlDelete: kubectl delete --ignore-not-found.
KubectlDeleteIgnoreNotFound(ok, exists) == ok

\* kubectl delete <kind> <name> exits non-zero when the cluster cannot be
\* reached and when no such object exists ("NotFound")
KubectlDelete(ok, exists) == ok /\ exists

\* Mutant of Undeclare: the command removes every object of the kind.
UndeclareAll(S, n) == {}

\* what kubectl delete <kind> <name> leaves of the objects S of that kind
Undeclare(S, n) == S \ {n}

\* kubectl delete service <app>
DeleteService(p) ==
    /\ pc[p] = "del_s"
    /\ \E ok \in BOOLEAN :
        LET fine == KubectlDelete(ok, app[p] \in services) IN
        /\ services' = IF fine THEN Undeclare(services, app[p]) ELSE services
        /\ Checked(p, "delete_service", fine, "del_w")
    /\ UNCHANGED <<workload, procs, dirs, used>>

\* kubectl delete deployment <app>, then the success response
DeleteWorkload(p) ==
    /\ pc[p] = "del_w"
    /\ \E ok \in BOOLEAN :
        LET fine == KubectlDelete(ok, workload[app[p]] # "absent") IN
        /\ workload' = IF fine
                       THEN [n \in Names |->
                                IF n \in Undeclare(Deployments, app[p])
                                THEN workload[n] ELSE "absent"]
                       ELSE workload
        /\ IF fine
           THEN Finish(p, [status |-> "success", code |-> 200],
                       Step(p, "delete_deployment", TRUE))
           ELSE HandlerFailed(p, Step(p, "delete_deployment", FALSE))
    /\ UNCHANGED <<services, procs, dirs, used>>

\* ------------------------------------------------------------ analyze
\* analyze_repo, lines 142-143: data['repo_url'] stands outside the try;
\* without the field the KeyError reaches Flask, which answers 500 with
\* its own error page
AnalyzeBadRequest(p) ==
    /\ pc[p] = "idle"
    /\ resp' = [status |-> "missing", code |-> 500, keys |-> {},
                thread |-> p, op |-> "analyze"]
    /\ UNCHANGED <<cluster, procs, dirs, used, pc, locals, request>>

\* analyze_repo, lines 144-145: the identity and the scratch directory
AnalyzeStart(p) ==
    /\ \E id \in Ids : Enter(p, "analyze", AnalyzeName(id), "a_clone")
    /\ UNCHANGED <<cluster, procs, dirs, used>>

\* analyze_repository: Repo.clone_from inside try ... finally; when it
\* raises, the finally block is next
AnalyzeClone(p) ==
    /\ pc[p] = "a_clone"
    /\ \E ok \in BOOLEAN :
        LET fine == ok /\ app[p] \notin dirs IN
        /\ dirs' = IF fine THEN dirs \cup {app[p]} ELSE dirs
        /\ trace' = [trace EXCEPT ![p] = Step(p, "clone", fine)]
        /\ Goto(p, IF fine THEN "a_read" ELSE "a_clean")
    /\ UNCHANGED <<cluster, procs, used, op, app, port, snap, details, killed, build>>

\* analyze_repository: detect_project_type, the port patterns over the
\* files, os.listdir; a file that cannot be read or a directory that is
\* gone raises
AnalyzeRead(p) ==
    /\ pc[p] = "a_read"
    /\ \E ok \in BOOLEAN :
        /\ ok => app[p] \in dirs
        /\ trace' = [trace EXCEPT ![p] = Step(p, "read", ok)]
        /\ Goto(p, "a_clean")
    /\ UNCHANGED <<cluster, procs, dirs, used, op, app, port, snap, details, killed, build>>

\* Mutant of Cleanup: the finally block is missing.
CleanupSkipped(ds, n) == ds

\* finally: if os.path.exists(project_dir): shutil.rmtree(project_dir)
Cleanup(ds, n) == ds \ {n}

\* the finally block, then the analysis or the handler's except clause
AnalyzeCleanup(p) ==
    /\ pc[p] = "a_clean"
    /\ dirs' = Cleanup(dirs, app[p])
    /\ IF \A i \in 1..Len(trace[p]) : trace[p][i].ok
       THEN Finish(p, [status |-> "analysis", code |-> 200,
                       keys |-> {"repo_url", "project_type", "files", "port_info"},
                       project_type |-> detect_project_type(repo)], trace[p])
       ELSE HandlerFailed(p, trace[p])
    /\ UNCHANGED <<cluster, procs, used>>

\* ------------------------------------------------------------- health
MaxNodes == 2     \* nodes of the cluster

\* the STATUS column of kubectl get nodes, as the words it is made of
Ready == <<"Ready">>
NotReady == <<"Not", "Ready">>

NodeLists == UNION {[1..k -> {Ready, NotReady}] : k \in 0..MaxNodes}

\* what kubectl get nodes prints: the header, then a line for each node;
\* nothing on stdout without nodes
RECURSIVE NodeLines(_)
NodeLines(sts) ==
    IF sts = <<>> THEN <<>>
    ELSE <<"node">> \o Head(sts) \o <<"control-plane", "1d", "v1">> \o NodeLines(Tail(sts))

GetNodes(sts) ==
    IF sts = <<>> THEN <<>>
    ELSE <<"NAME", "STATUS", "ROLES", "AGE", "VERSION">> \o NodeLines(sts)

\* "Ready" in nodes: the text holds the word somewhere
Contains(out, w) == \E i \in 1..Len(out) : out[i] = w

\* health_check: kubectl get nodes through run_command; any exception
\* counts as not running; the answer has no failure code
Health(p) ==
    /\ pc[p] = "idle"
    /\ \E ok \in BOOLEAN, sts \in NodeLists :
        LET k8s_status == ok /\ Contains(GetNodes(sts), "Ready") IN
        resp' = [status |-> IF k8s_status THEN "healthy" ELSE "unhealthy",
                 kubernetes |-> IF k8s_status THEN "running" ELSE "not running",
                 code |-> 200, keys |-> {"status", "kubernetes"},
                 thread |-> p, op |-> "health", queried |-> ok, nodes |-> sts]
    /\ UNCHANGED <<cluster, procs, dirs, used, pc, locals, request>>

\* ------------------------------------------------------- environment
\* the cluster brings a rollout to its end: complete, or progress deadline
RolloutEnds(n) ==
    /\ workload[n] = "rolling"
    /\ \E s \in {"ready", "failed"} : workload' = [workload EXCEPT ![n] = s]
    /\ resp' = NoResp
    /\ UNCHANGED <<services, procs, dirs, used, pc, locals, request>>

\* a port-forward process exits (bind failure, lost pod, killed by hand)
TunnelExits(i) ==
    /\ i \in 1..Len(procs)
    /\ procs' = RemoveAt(procs, {i})
    /\ resp' = NoResp
    /\ UNCHANGED <<cluster, dirs, used, pc, locals, request>>

\* main.py: the service is stopped and started again; WORKDIR is a new
\* tempfile.mkdtemp(), requests in flight are gone, the cluster and the
\* nohup'ed port-forward processes stay
Restart ==
    /\ dirs' = {}
    /\ pc' = [p \in Threads |-> "idle"]
    /\ op' = [p \in Threads |-> "none"]
    /\ app' = [p \in Threads |-> Foreign]
    /\ port' = [p \in Threads |-> 0]
    /\ snap' = [p \in Threads |-> <<>>]
    /\ details' = [p \in Threads |-> <<>>]
    /\ trace' = [p \in Threads |-> <<>>]
    /\ killed' = [p \in Threads |-> NotRun]
    /\ build' = [p \in Threads |-> NoBuild]
    /\ resp' = NoResp
    /\ UNCHANGED <<cluster, procs, used, request>>

\* ------------------------------------------------------- specification
ThreadStep(p) ==
    \/ DeployBadRequest(p)
    \/ DeployStart(p)
    \/ DeployClone(p)
    \/ DeployPrepare(p)
    \/ DeployBuild(p)
    \/ DeployLoad(p)
    \/ DeploySynthesize(p)
    \/ DeployApplyWorkload(p)
    \/ DeployApplyService(p)
    \/ DeployRollout(p)
    \/ ListStart(p)
    \/ ListGet(p)
    \/ ListItem(p)
    \/ ExposeSocket(p)
    \/ ExposePkill(p)
    \/ ExposePods(p)
    \/ ExposePopen(p)
    \/ ExposeVerify(p)
    \/ DeleteStart(p)
    \/ DeleteService(p)
    \/ DeleteWorkload(p)

Environment ==
    \/ \E n \in Names : RolloutEnds(n)
    \/ \E i \in 1..MaxTunnels : TunnelExits(i)
    \/ Restart

Next ==
    \/ \E p \in Threads : ThreadStep(p)
    \/ Environment

Spec == Init /\ [][Next]_vars

\* one request at a time: a thread moves only while every other is at rest
Alone(p) == \A q \in Threads \ {p} : pc[q] = "idle"

SeqNext ==
    \/ \E p \in Threads : Alone(p) /\ ThreadStep(p)
    \/ Environment

SeqSpec == Init /\ [][SeqNext]_vars

\* A handler goes on when the call it made has returned: run_command is
\* subprocess.run without a timeout and kubectl rollout status is given
\* no --timeout, so while the rollout is in progress the wait returns only
\* if kubectl itself fails, which may happen and need not.
Runs(p) ==
    /\ pc[p] # "idle"
    /\ ~(pc[p] = "d_rollout" /\ workload[app[p]] = "rolling")
    /\ ThreadStep(p)

LiveSpec == SeqSpec /\ \A p \in Threads : WF_vars(Alone(p) /\ Runs(p))

\* ---------------------------------- the endpoints that deploy nothing
\* analyze and health, for every set of marker files in the repository
ProbeInit ==
    /\ Booted({{Foreign}})
    /\ \E ms \in SUBSET Markers : repo = Tree(ms, NoSource)
    /\ env_vars = EnvVars(NoBinding, FALSE)

ProbeStep(p) ==
    \/ AnalyzeBadRequest(p)
    \/ AnalyzeStart(p)
    \/ AnalyzeClone(p)
    \/ AnalyzeRead(p)
    \/ AnalyzeCleanup(p)
    \/ Health(p)

ProbeNext == \E p \in Threads : ProbeStep(p)

ProbeSpec == ProbeInit /\ [][ProbeNext]_vars

\* ------------------------------------------- the inputs of a deploy
\* texts a client may bind PORT to: "9999", "80", "0", "-1", "abc", ""
PortTexts == {<<"9", "9", "9", "9">>, <<"8", "0">>, <<"0">>, <<"-", "1">>,
              <<"a", "b", "c">>, <<>>}

PortValues == {Str(t) : t \in PortTexts} \cup {Null, Num(8080)}

DigitChar(k) == CASE k = 1 -> "1" [] k = 2 -> "2" [] k = 3 -> "3" [] OTHER -> "4"

\* the forms a file of a project of the type may hold
FormsOf(type) ==
    IF type = "node" THEN {"listen", "port", "PORT", "envor"}
    ELSE {"run", "port", "PORT", "environ"}

FormSeqs(type, n) == UNION {[1..k -> FormsOf(type)] : k \in 0..n}

\* an entry-point file is missing, or holds up to n statements
Choices(type, n) ==
    {[present |-> FALSE, forms |-> <<>>]}
        \cup {[present |-> TRUE, forms |-> fs] : fs \in FormSeqs(type, n)}

FamilyFiles(type) == IF type = "node" THEN NodeFiles ELSE PythonFiles

\* the tree with the marker files ms and the entry-point files cs of the
\* type; statement i of file k carries the digits "ki"
SourceTree(ms, type, cs) ==
    LET fl == FamilyFiles(type)
        at(f) == {k \in 1..Len(fl) : fl[k] = f /\ cs[k].present}
        text(k) == [i \in 1..Len(cs[k].forms) |->
                        Stmt(cs[k].forms[i], <<DigitChar(k), DigitChar(i)>>)]
    IN Tree(ms \cup {f \in EntryFiles : at(f) # {}},
            [f \in EntryFiles |->
                IF at(f) = {} THEN <<>> ELSE text(CHOOSE k \in at(f) : TRUE)])

\* ----------------------------------- the functions of build.py alone
\* detect_project_type and detect_project_port are applied once to
\* inputs drawn at the start: every set of marker files with every PORT
\* binding, and every text of the entry-point files of a node and of a
\* python project, the longer texts without or with an unusable binding.
FnInit ==
    /\ Booted({{Foreign}})
    /\ \/ /\ \E ms \in SUBSET Markers : repo = Tree(ms, NoSource)
          /\ \E v \in PortValues \cup {NoBinding} : env_vars = EnvVars(v, FALSE)
       \/ \E type \in {"node", "python"} :
            \/ /\ \E c1, c2, c3 \in Choices(type, MaxStmts) :
                    repo = SourceTree({}, type, <<c1, c2, c3>>)
               /\ \E v \in {NoBinding, Str(<<"a", "b", "c">>)} :
                    env_vars = EnvVars(v, FALSE)
            \/ /\ \E c1, c2, c3 \in Choices(type, 1) :
                    repo = SourceTree({}, type, <<c1, c2, c3>>)
               /\ \E v \in PortValues : env_vars = EnvVars(v, FALSE)

\* the value a function hands back, as the step that leaves the call
Returned(fn, type, v) ==
    /\ resp = NoResp
    /\ resp' = [status |-> "returned", fn |-> fn, type |-> type, value |-> v]
    /\ UNCHANGED <<cluster, procs, dirs, used, pc, locals, request>>

Classify == Returned("detect_project_type", "none", detect_project_type(repo))

Resolve ==
    \E type \in Archetypes :
        Returned("detect_project_port", type,
                 detect_project_port(repo, type, env_vars))

FnNext == Classify \/ Resolve

FnSpec == FnInit /\ [][FnNext]_vars

\* --------------------------------------------- one deploy, any input
\* One client deploys: any set of marker files, with or without a
\* Dockerfile and a .env file, without port statements or with one in
\* the first entry-point file, and any env_vars.
BuildInit ==
    /\ Booted({{Foreign}})
    /\ \E ms \in SUBSET (Markers \cup {"Dockerfile", ".env"}) :
        \/ repo = Tree(ms, NoSource)
        \/ \E type \in {"node", "python"} :
               repo = SourceTree(ms, type,
                        <<[present |-> TRUE, forms |-> <<"port">>],
                          [present |-> FALSE, forms |-> <<>>],
                          [present |-> FALSE, forms |-> <<>>]>>)
    /\ \E v \in PortValues \cup {NoBinding}, o \in BOOLEAN : env_vars = EnvVars(v, o)

DeployRun(p) ==
    \/ DeployClone(p)
    \/ DeployPrepare(p)
    \/ DeployBuild(p)
    \/ DeployLoad(p)
    \/ DeploySynthesize(p)
    \/ DeployApplyWorkload(p)
    \/ DeployApplyService(p)
    \/ DeployRollout(p)
    \/ ExposeSocket(p)
    \/ ExposePkill(p)
    \/ ExposePods(p)
    \/ ExposePopen(p)
    \/ ExposeVerify(p)

DeployStep(p) ==
    \/ DeployBadRequest(p)
    \/ DeployStart(p)
    \/ DeployRun(p)

BuildNext ==
    \/ DeployStep(1)
    \/ \E n \in Names : RolloutEnds(n)
    \/ \E i \in 1..MaxTunnels : TunnelExits(i)

BuildSpec == BuildInit /\ [][BuildNext]_vars

\* ------------------------------- deploys with distinct identities
\* Every thread deploys, thread p under the identity p, a Flask project
\* without Dockerfile and .env, with bindings.
PairInit ==
    /\ Booted({{Foreign}})
    /\ repo = Tree({"requirements.txt"}, NoSource)
    /\ env_vars = EnvVars(NoBinding, TRUE)

PairNext ==
    \/ \E p \in Threads : DeployStartAs(p, p)
    \/ \E p \in Threads : DeployRun(p)
    \/ \E n \in Names : RolloutEnds(n)

PairSpec == PairInit /\ [][PairNext]_vars

\* =================================================================
\* Claims
\* =================================================================
ExposePcs == {"x_socket", "x_pkill", "x_pods", "x_popen", "x_verify"}

\* the response that leaves in this state answers a deploy whose pipeline ran
DeployAnswered == resp.status \in {"success", "error"} /\ resp.op = "deploy"

Pipeline == <<"clone", "recipe", "envfile", "build", "load", "apply_workload",
              "apply_exposure", "rollout", "expose">>

Fatal == {"clone", "build", "load", "apply_workload", "apply_exposure", "rollout"}

IsPipelinePrefix(t) ==
    /\ Len(t) <= Len(Pipeline)
    /\ \A i \in 1..Len(t) : t[i].step = Pipeline[i]

\* C1: the steps of a deploy call run in the fixed pipeline order, and a
\* failing clone, build, load, apply or rollout wait is the last step the
\* call invokes; the call then answers status "error" with code 500.
C1_PipelineOrderAndAbort ==
    /\ \A p \in Threads : op[p] = "deploy" =>
            /\ IsPipelinePrefix(trace[p])
            /\ \A i \in 1..Len(trace[p]) : trace[p][i].ok
    /\ DeployAnswered =>
            /\ IsPipelinePrefix(resp.trace)
            /\ \A i \in 1..Len(resp.trace) :
                    (resp.trace[i].step \in Fatal /\ ~resp.trace[i].ok) =>
                        /\ i = Len(resp.trace)
                        /\ resp.status = "error"
                        /\ resp.code = 500
            /\ resp.status = "success" => Len(resp.trace) = Len(Pipeline)

\* C1 witness: a deploy whose image load failed answers after five steps.
C1_Witness_LoadFailed ==
    /\ DeployAnswered
    /\ resp.status = "error"
    /\ Len(resp.trace) = 5
    /\ resp.trace[5].step = "load"
    /\ ~resp.trace[5].ok

\* C2: requests run one at a time.  Whenever get_service_url is about to
\* return a URL (its ps check finds a line), its pkill ran before its
\* Popen, exactly one live tunnel targets the workload, and that tunnel is
\* bound to the port this call chose; so after two calls in a row the one
\* tunnel left is the second call's.
C2_OneTunnelAfterSecondExpose ==
    \A p \in Threads :
        /\ pc[p] \in {"x_popen", "x_verify"} => killed[p] # NotRun
        /\ pc[p] \in {"x_socket", "x_pkill"} => killed[p] = NotRun
        /\ (pc[p] = "x_verify" /\ Matching(app[p]) # {}) =>
                \E i \in 1..Len(procs) :
                    /\ TunnelsOf(app[p]) = {i}
                    /\ procs[i].port = port[p]

\* C2 witness: a call that ended the tunnel of an earlier call for the same
\* workload is about to return its URL.
C2_Witness_SecondExpose ==
    \E p \in Threads :
        /\ pc[p] = "x_verify"
        /\ killed[p] = "own"
        /\ TunnelsOf(app[p]) # {}

\* C3 (as claimed): once every request has returned, no workload name has
\* more than one live tunnel process, whatever the interleaving was.
C3_AtMostOneTunnelPerName ==
    (\A p \in Threads : pc[p] = "idle") =>
        \A n \in Names : Cardinality(TunnelsOf(n)) <= 1

\* thread p takes its ExposeVerify step and get_service_url returns
VerifyReturns(p) ==
    /\ pc[p] = "x_verify"
    /\ \/ pc'[p] = "l_ps"
       \/ pc'[p] = "idle" /\ resp'.status = "success" /\ resp'.thread = p

\* the service_url the step hands to the caller of get_service_url, or
\* list_deployments gives the current item
UrlGiven(p) ==
    IF pc'[p] = "idle"
    THEN IF op[p] = "deploy" THEN resp'.service_url
         ELSE resp'.deployments[Len(resp'.deployments)].service_url
    ELSE details'[p][Len(details'[p])].service_url

\* C4 (as claimed): when the ps check after the grace period finds no live
\* process matching the workload's tunnel, get_service_url still returns
\* http://localhost:<chosen port>, not the sentinel.
C4_NoProcessStillUrl ==
    [][\A p \in Threads :
        (VerifyReturns(p) /\ Matching(app[p]) = {}) => UrlGiven(p) = Url(port[p])]_vars

\* C5: a deploy whose steps up to the rollout wait succeeded and whose
\* expose failed answers status "success", code 200, with deployment_id,
\* app_name and the sentinel as service_url; and no step of
\* get_service_url changes the cluster.
C5_ExposeFailureNotFatal ==
    /\ [](DeployAnswered /\ Len(resp.trace) = Len(Pipeline) /\ ~resp.trace[Len(Pipeline)].ok
            => /\ resp.status = "success"
               /\ resp.code = 200
               /\ resp.service_url = Sentinel
               /\ resp.app_name = resp.app
               /\ resp.deployment_id = resp.app[2])
    /\ [][\A p \in Threads :
            (pc[p] \in ExposePcs /\ pc'[p] # pc[p]) => cluster' = cluster]_vars

\* C5 witness: a deploy answers success with the sentinel while its
\* workload is in the cluster.
C5_Witness_SentinelSuccess ==
    /\ DeployAnswered
    /\ resp.status = "success"
    /\ resp.service_url = Sentinel
    /\ workload[resp.app] # "absent"

\* C6 (as claimed): no deploy applies its workload manifest under a name
\* an earlier deploy already applied one under, restarts included.
C6_NoNameReuse ==
    [][\A p \in Threads :
        (pc[p] = "d_apply_w" /\ pc'[p] = "d_apply_s") => app[p] \notin used]_vars

\* C7 (as claimed): a tunnel process is spawned only for a workload whose
\* rollout is complete.
C7_TunnelOnlyWhenReady ==
    [][\A p \in Threads :
        (pc[p] = "x_popen" /\ pc'[p] = "x_verify") => workload[app[p]] = "ready"]_vars

Range(f) == {f[i] : i \in 1..Len(f)}

\* C8: every entry of a list response has the app- prefix, the entries are
\* exactly the prefixed workloads kubectl printed, each once, and a list
\* request inspects or creates tunnels for prefixed names only.
C8_ListOnlyPrefixed ==
    /\ (resp.status = "success" /\ resp.op = "list") =>
            LET d == resp.deployments IN
            /\ \A i \in 1..Len(d) : d[i].app_name[1] = "app-"
            /\ {d[i].app_name : i \in 1..Len(d)} =
                    {n \in Range(resp.snap) : n[1] = "app-"}
            /\ \A i, j \in 1..Len(d) : d[i].app_name = d[j].app_name => i = j
    /\ \A p \in Threads :
            (op[p] = "list" /\ pc[p] \in ExposePcs \cup {"l_ps"}) => app[p][1] = "app-"

\* C8 witness: a list answers with an entry while the cluster printed the
\* foreign workload too.
C8_Witness_ForeignSkipped ==
    /\ resp.status = "success"
    /\ resp.op = "list"
    /\ Foreign \in Range(resp.snap)
    /\ Len(resp.deployments) >= 1

\* thread p takes its ListItem step
ListItemSteps(p) ==
    /\ pc[p] = "l_ps"
    /\ \/ pc'[p] = "x_socket"
       \/ pc'[p] = "l_ps" /\ Len(details'[p]) = Len(details[p]) + 1
       \/ pc'[p] = "idle" /\ resp'.status = "success" /\ resp'.thread = p

\* C9 (as claimed): for a listed workload with a live tunnel, list gives
\* http://localhost:<p> with p the port a live tunnel of that workload is
\* bound to, and starts or ends no process; it calls get_service_url only
\* for a workload without a live tunnel.
C9_ReuseLiveTunnel ==
    [][\A p \in Threads : (ListItemSteps(p) /\ TunnelsOf(app[p]) # {}) =>
        /\ pc'[p] # "x_socket"
        /\ procs' = procs
        /\ \E i \in TunnelsOf(app[p]) : UrlGiven(p) = Url(procs[i].port)]_vars

\* C10: delete of a name under which the cluster holds no declaration
\* answers status "error" with code 500 at its first command, runs no
\* second command and leaves the cluster as it was.
C10_DeleteMissingFails ==
    /\ [][\A p \in Threads :
            (pc[p] = "del_s" /\ workload[app[p]] = "absent" /\ app[p] \notin services
                /\ pc'[p] # pc[p])
            => /\ pc'[p] = "idle"
               /\ cluster' = cluster
               /\ resp'.status = "none" \/
                    (resp'.thread = p /\ resp'.status = "error" /\ resp'.code = 500)]_vars
    /\ []((resp.status = "success" /\ resp.op = "delete") =>
            /\ Len(resp.trace) = 2
            /\ resp.trace[1].ok /\ resp.trace[2].ok)

\* C10 witness: a delete answers with an error after its first command
\* while the name has no declaration in the cluster.
C10_Witness_MissingName ==
    /\ resp.status = "error"
    /\ resp.op = "delete"
    /\ Len(resp.trace) = 1
    /\ workload[resp.app] = "absent"
    /\ resp.app \notin services

\* thread p takes a step of its delete call
DeleteSteps(p) == op[p] = "delete" /\ pc'[p] # pc[p]

\* C11: requests run one at a time.  No step of delete(w) starts or ends
\* a process or touches a declaration of another name; when delete(w)
\* answers success it ran kubectl delete service, then kubectl delete
\* deployment, the exposure was gone before the workload was removed, and
\* neither is in the cluster afterwards.
C11_DeleteFrame ==
    [][\A p \in Threads : DeleteSteps(p) =>
        /\ procs' = procs
        /\ \A n \in Names \ {app[p]} :
                /\ workload'[n] = workload[n]
                /\ n \in services' <=> n \in services
        /\ (resp'.status = "success") =>
                /\ resp'.trace = <<[step |-> "delete_service", ok |-> TRUE],
                                  [step |-> "delete_deployment", ok |-> TRUE]>>
                /\ pc[p] = "del_w"
                /\ app[p] \notin services
                /\ workload[app[p]] # "absent"
                /\ app[p] \notin services'
                /\ workload'[app[p]] = "absent"]_vars

\* C11 witness: a delete answers success while a tunnel of the deleted
\* workload is still running and another workload is in the cluster.
C11_Witness_TunnelSurvives ==
    /\ resp.status = "success"
    /\ resp.op = "delete"
    /\ TunnelsOf(resp.app) # {}
    /\ workload[resp.app] = "absent"
    /\ workload[Foreign] = "ready"

\* thread p takes a step of its deploy call
DeploySteps(p) == op[p] = "deploy" /\ pc'[p] # pc[p]

\* C12: requests run one at a time.  No step of a deploy removes a
\* declaration from the cluster; a deploy whose exposure apply or rollout
\* wait fails answers status "error" with code 500, that step leaves the
\* cluster as it found it, and the workload declaration (after a failed
\* rollout wait the exposure declaration too) is in the cluster when the
\* call has returned.
C12_NoCompensation ==
    [][\A p \in Threads : DeploySteps(p) =>
        /\ \A n \in Names : workload[n] # "absent" => workload'[n] # "absent"
        /\ services \subseteq services'
        /\ (pc[p] \in {"d_apply_s", "d_rollout"} /\ resp'.status # "none") =>
                /\ resp'.status = "error"
                /\ resp'.code = 500
                /\ cluster' = cluster
                /\ workload'[app[p]] # "absent"
                /\ pc[p] = "d_rollout" => app[p] \in services']_vars

\* C12 witness: a deploy answers an error after its rollout wait failed,
\* and its workload and its exposure are in the cluster.
C12_Witness_RolloutFailedLeftBehind ==
    /\ DeployAnswered
    /\ resp.status = "error"
    /\ Len(resp.trace) = 8
    /\ resp.trace[8].step = "rollout"
    /\ workload[resp.app] = "failed"
    /\ resp.app \in services

\* C13 (as claimed): every deploy that is in its rollout wait eventually
\* leaves it, also when the workload never becomes ready.
C13_WaitBounded ==
    \A p \in Threads : (pc[p] = "d_rollout") ~> (pc[p] # "d_rollout")

\* a Flask tree without a build recipe and without a port statement,
\* deployed with env_vars = {}
PythonInput ==
    /\ "requirements.txt" \in repo.files
    /\ "package.json" \notin repo.files
    /\ "Dockerfile" \notin repo.files
    /\ repo.source = NoSource
    /\ env_vars = EnvVars(NoBinding, FALSE)

\* C14 (as claimed): a deploy of a tree with requirements.txt, without a
\* Dockerfile, with env_vars = {} is never refused for a reason that lies
\* in the tree or the request; it is typed python, the python recipe is
\* written, both manifests carry port 5000, and a URL it answers with is
\* http://localhost:<port> with <port> other than 5000.
C14_PythonEndToEnd ==
    (DeployAnswered /\ PythonInput) =>
        /\ "error" \notin DOMAIN resp
        /\ Len(resp.trace) >= 3 =>
                /\ resp.build.project_type = "python"
                /\ resp.build.dockerfile = "python"
        /\ resp.build.synthesized =>
                /\ resp.build.containerPort = 5000
                /\ resp.build.targetPort = 5000
        /\ (resp.status = "success" /\ resp.service_url # Sentinel) =>
                /\ resp.port \in Ports
                /\ resp.port # 5000
                /\ resp.service_url = <<"http://localhost:", resp.port>>

\* the archetype the marker files of the deployed tree determine
MarkerArchetype ==
    IF "package.json" \in repo.files THEN "node"
    ELSE IF "requirements.txt" \in repo.files THEN "python"
    ELSE IF "go.mod" \in repo.files THEN "go"
    ELSE "static"

\* C15 (as claimed): the project type a deploy hands to port resolution
\* is the archetype of the marker files, with or without a Dockerfile in
\* the tree; the canonical recipe of that archetype is written exactly
\* when the tree had no Dockerfile.
C15_ArchetypeFromMarkers ==
    \A p \in Threads : build[p].project_type # "none" =>
        /\ build[p].project_type = MarkerArchetype
        /\ build[p].dockerfile =
                IF "Dockerfile" \in repo.files THEN "own" ELSE MarkerArchetype

\* the call of the function fn has returned in this state
FnReturned(fn) == resp.status = "returned" /\ resp.fn = fn

\* C16: detect_project_type returns one of the four archetypes for every
\* set of marker files: node exactly when package.json is present, python
\* exactly when it is not and requirements.txt is, go exactly when neither
\* is and go.mod is, static exactly when no marker is present.
C16_ClassificationPriority ==
    FnReturned("detect_project_type") =>
        LET pkg == "package.json" \in repo.files
            req == "requirements.txt" \in repo.files
            gom == "go.mod" \in repo.files
        IN /\ resp.value \in {"node", "python", "go", "static"}
           /\ resp.value = "node" <=> pkg
           /\ resp.value = "python" <=> (~pkg /\ req)
           /\ resp.value = "go" <=> (~pkg /\ ~req /\ gom)
           /\ resp.value = "static" <=> (~pkg /\ ~req /\ ~gom)

\* C16 witness: a tree with a Node manifest and a Go module file is node.
C16_Witness_NodeBeatsGo ==
    /\ FnReturned("detect_project_type")
    /\ {"package.json", "go.mod"} \subseteq repo.files
    /\ resp.value = "node"

\* the integer bindings among the PORT values, with the integer each is
IntegerBindings ==
    {<<Str(<<"9", "9", "9", "9">>), 9999>>, <<Str(<<"8", "0">>), 80>>,
     <<Str(<<"0">>), 0>>, <<Str(<<"-", "1">>), 0 - 1>>, <<Num(8080), 8080>>}

\* C17: when env_vars binds PORT to an integer n, detect_project_port
\* returns n, for every archetype and every source text.
C17_PortBindingWins ==
    FnReturned("detect_project_port") =>
        \A b \in IntegerBindings :
            env_vars.PORT = b[1] => resp.value = [kind |-> "int", n |-> b[2]]

\* C17 witness: PORT is "9999", the project is node and its index.js
\* holds a port statement; the result is 9999.
C17_Witness_OverSource ==
    /\ FnReturned("detect_project_port")
    /\ env_vars.PORT = Str(<<"9", "9", "9", "9">>)
    /\ resp.type = "node"
    /\ "index.js" \in repo.files
    /\ Len(repo.source["index.js"]) = 1
    /\ resp.value = [kind |-> "int", n |-> 9999]

\* C18 (as claimed): with PORT bound to a value that is not an integer,
\* detect_project_port raises nothing and returns what it returns for
\* the same tree and archetype without the PORT binding.
C18_InvalidPortSkipped ==
    (FnReturned("detect_project_port") /\ HasPort(env_vars)
        /\ \A b \in IntegerBindings : env_vars.PORT # b[1]) =>
            /\ resp.value.kind = "int"
            /\ resp.value = detect_project_port(repo, resp.type,
                                                EnvVars(NoBinding, env_vars.others))

\* the entry-point files in the order the archetype visits them
Visited(type) ==
    IF type = "node" THEN <<"index.js", "server.js", "app.js">>
    ELSE IF type = "python" THEN <<"app.py", "main.py", "run.py">>
    ELSE <<>>

\* rule r matches statement i of the k-th entry-point file of the type
Hit(type, k, r, i) ==
    /\ Visited(type)[k] \in repo.files
    /\ i \in 1..Len(repo.source[Visited(type)[k]])
    /\ RuleMatches(type, r, repo.source[Visited(type)[k]][i].form)

Hits(type) ==
    {h \in (1..Len(Visited(type))) \X (1..4) \X (1..MaxStmts) :
        Hit(type, h[1], h[2], h[3])}

\* file first, then rule, then position in the text
Before(g, h) ==
    \/ g[1] < h[1]
    \/ g[1] = h[1] /\ g[2] < h[2]
    \/ g[1] = h[1] /\ g[2] = h[2] /\ g[3] <= h[3]

\* C19: with PORT unbound or bound to a text that is not an integer,
\* detect_project_port returns for node and python the number of the
\* leftmost match of the first rule that matches in the first entry-point
\* file that has a match, the files and rules taken in their fixed order;
\* without any match it returns the default (3000 node, 5000 python); for
\* go and static it returns the default (8080, 80) whatever the files hold.
C19_SourceInspectionOrder ==
    (FnReturned("detect_project_port")
        /\ env_vars.PORT \in {NoBinding, Str(<<"a", "b", "c">>), Str(<<>>)}) =>
        LET type == resp.type IN
        /\ resp.value.kind = "int"
        /\ Hits(type) # {} =>
                \E h \in Hits(type) :
                    /\ \A g \in Hits(type) : Before(h, g)
                    /\ resp.value.n = 10 * h[1] + h[3]
        /\ Hits(type) = {} =>
                resp.value.n = (CASE type = "node" -> 3000
                                  [] type = "python" -> 5000
                                  [] type = "go" -> 8080
                                  [] type = "static" -> 80)

\* C19 witness: index.js exists without a match; server.js holds
\* "PORT = 21" and then "port = 22"; the node result is 22, the match of
\* rule 2, not the earlier match of rule 3.
C19_Witness_SecondFileSecondRule ==
    /\ FnReturned("detect_project_port")
    /\ resp.type = "node"
    /\ env_vars.PORT = NoBinding
    /\ "index.js" \in repo.files
    /\ repo.source["index.js"] = <<>>
    /\ Len(repo.source["server.js"]) = 2
    /\ repo.source["server.js"][1].form = "PORT"
    /\ repo.source["server.js"][2].form = "port"
    /\ resp.value = [kind |-> "int", n |-> 22]

\* C20 (as claimed): the port a deploy resolves is a positive integer for
\* every tree and every env_vars, and the one value is the containerPort
\* of the workload manifest and the targetPort of the service manifest.
C20_PortPositiveAndShared ==
    \A p \in Threads : build[p].synthesized =>
        /\ build[p].containerPort > 0
        /\ build[p].targetPort = build[p].containerPort

\* C21: after prepare_docker_build the Dockerfile holds what the
\* repository brought when it brought one, and a canonical recipe exactly
\* when it brought none; .env holds what the repository brought when it
\* brought one, the bindings exactly when it brought none and env_vars is
\* not empty, and does not exist otherwise.
C21_NoOverwrite ==
    \A p \in Threads : build[p].project_type # "none" =>
        LET hadRecipe == "Dockerfile" \in repo.files
            hadEnv == ".env" \in repo.files
            bound == env_vars.PORT.kind # "absent" \/ env_vars.others
        IN /\ build[p].dockerfile = "own" <=> hadRecipe
           /\ build[p].dockerfile \in {"node", "python", "go", "static"} <=> ~hadRecipe
           /\ build[p].envfile = "own" <=> hadEnv
           /\ build[p].envfile = "bindings" <=> (~hadEnv /\ bound)
           /\ build[p].envfile = "none" <=> (~hadEnv /\ ~bound)

\* C21 witness: the repository brought a Dockerfile and a .env, the
\* request brings bindings, and both files are the repository's after
\* the preparation.
C21_Witness_CallerFilesKept ==
    \E p \in Threads :
        /\ pc[p] = "d_build"
        /\ {"Dockerfile", ".env"} \subseteq repo.files
        /\ env_vars.others
        /\ build[p].dockerfile = "own"
        /\ build[p].envfile = "own"

\* thread p takes a step of its analyze call
AnalyzeSteps(p) == op[p] = "analyze" /\ pc'[p] # pc[p]

\* C22: no step of an analyze call touches the cluster or the process
\* table, its steps are the clone and the reading only, and when the call
\* answers, after a failed clone, a failed reading or with the analysis,
\* its scratch directory does not exist.
C22_AnalyzeLeavesNothing ==
    [][\A p \in Threads : AnalyzeSteps(p) =>
        /\ cluster' = cluster
        /\ procs' = procs
        /\ used' = used
        /\ (resp'.status # "none") =>
                /\ resp'.op = "analyze"
                /\ resp'.status \in {"analysis", "error"}
                /\ \A i \in 1..Len(resp'.trace) :
                        resp'.trace[i].step \in {"clone", "read"}
                /\ app[p] \notin dirs']_vars

\* C22 witness: an analyze whose clone succeeded and whose reading failed
\* has answered with an error, and its directory is gone.
C22_Witness_ReadFailed ==
    /\ resp.status = "error"
    /\ resp.op = "analyze"
    /\ Len(resp.trace) = 2
    /\ resp.trace[1].ok
    /\ ~resp.trace[2].ok
    /\ resp.app \notin dirs

\* C23 (as claimed): every response with a failure status code carries
\* the keys status and error, with status "error"; this includes the
\* answer to a deploy request without repo_url.
C23_StructuredErrors ==
    (resp.status # "none" /\ "code" \in DOMAIN resp /\ resp.code >= 400) =>
        /\ resp.status = "error"
        /\ {"status", "error"} \subseteq resp.keys

\* C24 (as claimed): health answers healthy / running exactly when the
\* node query succeeded and at least one node has the status Ready, and
\* unhealthy / not running otherwise.
C24_HealthReflectsReadyNodes ==
    (resp.status \in {"healthy", "unhealthy"}) =>
        LET ready == /\ resp.queried
                     /\ \E i \in 1..Len(resp.nodes) : resp.nodes[i] = <<"Ready">>
        IN /\ resp.status = "healthy" <=> ready
           /\ resp.kubernetes = "running" <=> ready

\* C25: two deploy calls in flight under distinct identities have created
\* or written no path in common (working directory, Dockerfile, .env, the
\* two manifest files), and neither has a call that answers right now
\* with a call still in flight.
C25_DisjointPaths ==
    /\ \A p, q \in Threads :
            (p # q /\ op[p] = "deploy" /\ op[q] = "deploy" /\ app[p] # app[q]) =>
                build[p].paths \cap build[q].paths = {}
    /\ DeployAnswered =>
            \A q \in Threads :
                (op[q] = "deploy" /\ app[q] # resp.app) =>
                    resp.build.paths \cap build[q].paths = {}

\* C25 witness: two deploys under distinct identities are in flight, and
\* each has written its working directory, recipe, env file and manifests.
C25_Witness_BothWrote ==
    \E p, q \in Threads :
        /\ app[p] # app[q]
        /\ build[p].synthesized /\ build[q].synthesized
        /\ Cardinality(build[p].paths) = 5
        /\ Cardinality(build[q].paths) = 5

\* the step s ran in the trace t and succeeded
Succeeded(t, s) == \E i \in 1..Len(t) : t[i].step = s /\ t[i].ok

\* C26: a deploy answers status "success" only if, in that call, clone,
\* image build, load, apply of the workload, apply of the exposure and the
\* rollout wait all succeeded; both declarations of its app are then in the
\* cluster and the rollout of the workload is complete.
C26_SuccessMeansAllSucceeded ==
    (DeployAnswered /\ resp.status = "success") =>
        /\ \A s \in Fatal : Succeeded(resp.trace, s)
        /\ resp.app \in used
        /\ resp.app \in services
        /\ workload[resp.app] = "ready"

\* C26 witness: a deploy answers success, with a port-forward URL, for a
\* workload that is declared, exposed and rolled out.
C26_Witness_SuccessWithUrl ==
    /\ DeployAnswered
    /\ resp.status = "success"
    /\ resp.app \in services
    /\ workload[resp.app] = "ready"
    /\ TunnelsOf(resp.app) # {}
    /\ Succeeded(resp.trace, "rollout")

\* the live tunnels of the process table ps whose target is exactly n
TunnelsIn(ps, n) == {i \in 1..Len(ps) : ps[i].name = n}

\* C27 (as claimed): the pkill of get_service_url for the workload w ends
\* tunnels of w only; the tunnels of every other name, a name that has w
\* as a proper prefix included, are as many after the step as before.
C27_PkillExact ==
    [][\A p \in Threads :
        (pc[p] = "x_pkill" /\ pc'[p] = "x_pods") =>
            \A v \in Names \ {app[p]} :
                Cardinality(TunnelsIn(procs', v)) = Cardinality(TunnelsIn(procs, v))]_vars

\* thread p takes the step with which get_service_url returns
ExposeReturns(p) ==
    /\ pc[p] \in {"x_pods", "x_popen", "x_verify"}
    /\ \/ pc'[p] = "l_ps"
       \/ pc'[p] = "idle" /\ resp'.status = "success" /\ resp'.thread = p

\* C28 (as claimed): a get_service_url that returns the sentinel has ended
\* no tunnel of its own workload: its pkill found none to end.
C28_FailedExposeKeepsTunnel ==
    [][\A p \in Threads :
        (ExposeReturns(p) /\ UrlGiven(p) = Sentinel) => killed[p] # "own"]_vars

\* C29 (as claimed): a delete of a workload that is declared while its
\* exposure is not (a deploy failed between its two applies) leaves no
\* workload declaration of that name when it answers, with success or
\* with an error.
C29_DeleteRemovesPartial ==
    [][\A p \in Threads :
        (/\ pc[p] = "del_s"
         /\ app[p] \notin services
         /\ workload[app[p]] # "absent"
         /\ resp'.status \in {"success", "error"}
         /\ resp'.thread = p)
            => workload'[app[p]] = "absent"]_vars

====
